---- MODULE Spec2Model ----
(***************************************************************************)
(* Bosch VTA agent: the RAG engine (app/utils/rag.py), its startup in      *)
(* app/main.py, the web-search tool of app/utils/helpers.py, the batch     *)
(* uploader of app/utils/batch_upload.py and the routers of                *)
(* app/routers (chat, documents, auth).                                    *)
(*                                                                         *)
(* The specifications share the variables:                                 *)
(*   SpecStartup  engine startups and the batch uploader against the       *)
(*                shared Qdrant store (collections are checked, created    *)
(*                and filled in separate calls, so they interleave);       *)
(*   SpecEarly    the startups, with requests that arrive before a         *)
(*                startup has completed;                                   *)
(*   SpecQuery    AutoTechnicianRAG.query on a constructed engine: the     *)
(*                session map, the agent's single chat memory and the      *)
(*                ReAct loop driven by the completions of the LLM;         *)
(*   SpecChat     the /chat/query handlers of app/routers/chat.py around   *)
(*                query, with the messages they store in MongoDB;          *)
(*   SpecDocs     add_documents and list_manuals on the manuals            *)
(*                collection;                                              *)
(*   SpecMetadata the metadata loops of create_index and add_documents;    *)
(*   SpecAudio    one request to /chat/query or /chat/audio;               *)
(*   SpecUpload   POST /documents/upload;                                  *)
(*   SpecFolder   process_folder of the batch uploader;                    *)
(*   SpecBatchLoop the batch loop of the uploader's main();                *)
(*   SpecAuth     register, login and the two authentication dependencies. *)
(* The LLM, the web search, the embedding provider and Qdrant are the      *)
(* environment: what the code does not decide is a choice (\E).            *)
(***************************************************************************)
EXTENDS Integers, Sequences, FiniteSets, TLC

VARIABLES
    env,          \* names of the environment variables that are set
    corpus,       \* documents found under manuals_path / online_resources_path
    existing,     \* Qdrant: names of the collections that exist
    collections,  \* Qdrant: name -> stored chunk payloads
    creates,      \* history: successful create_collection calls per name
    proc,         \* one record per engine process (lifespan + AutoTechnicianRAG)
    runs,         \* startups made so far per engine process slot
    uploader,     \* the batch uploader's upload_batch_to_qdrant call
    sessions,     \* AutoTechnicianRAG.sessions: session_id -> turn list
    memory,       \* the agent's ChatMemoryBuffer: all committed messages
    cur,          \* the query executing inside AutoTechnicianRAG.query
    last,         \* outcome of the query that returned or raised last
    nq,           \* number of queries started
    listResult,   \* value returned by the last list_manuals call
    addResult,    \* value returned by the last add_documents call
    nadds,        \* number of add_documents calls made
    ingest,       \* the metadata loop of create_index / add_documents at work
    handler,      \* one record per HTTP request to the /chat/query handler
    mongo,        \* MongoDB: the chats, sessions, documents and users collections
    upload,       \* the request inside upload_document (documents.py)
    folder,       \* process_folder of batch_upload.py at work
    loop,         \* the batch loop of main() in batch_upload.py
    auth          \* the requests to /auth/register, /auth/token and /auth/me

storeVars == <<existing, collections, creates>>
startVars == <<proc, runs, uploader>>
queryVars == <<sessions, memory, cur, last, nq>>
docsVars  == <<listResult, addResult, nadds>>
chatVars  == <<handler, mongo>>
toolVars  == <<upload, folder, loop, auth>>
extVars   == <<ingest, chatVars, toolVars>>
vars == <<env, corpus, storeVars, startVars, queryVars, docsVars, extVars>>

(***************************************************************************)
(* Bounds of the model.                                                    *)
(***************************************************************************)
MaxRuns == 2
MaxSteps == 3
MaxQueries == 3
MaxAdds == 2
MaxDocs == 2

None == "none"

\* No query is executing; no query has returned or raised yet.
NoQuery == [n |-> 0]
NoResult == [n |-> 0]

(***************************************************************************)
(* Names fixed by the code.                                                *)
(***************************************************************************)
CollectionOrder == <<"manuals", "online_resources">>
CollectionNames == {CollectionOrder[i] : i \in 1..Len(CollectionOrder)}

ConfigKeys ==
    {"MONGODB_URI", "GROQ_API_KEY", "QDRANT_URL", "QDRANT_API_KEY", "JINA_API_KEY"}

Procs == {"p1", "p2"}

(***************************************************************************)
(* Documents.  A path is the sequence of its segments, the empty path the  *)
(* empty sequence; metadata is a function whose domain holds the keys that *)
(* are present.                                                            *)
(***************************************************************************)
EmptyPath == <<>>

Basename(path) == IF path = EmptyPath THEN "" ELSE path[Len(path)]

MetaGet(meta, key, default) == IF key \in DOMAIN meta THEN meta[key] ELSE default

\* A normalisation that always derives file_name from file_path.
NormalizeMetadata_Overwrite(meta) ==
    LET file_path == MetaGet(meta, "file_path", EmptyPath)
    IN  [file_path |-> file_path, file_name |-> Basename(file_path)]

\* rag.py 193-200 and 212-219: the metadata every indexed document carries.
NormalizeMetadata(meta) ==
    LET file_path == MetaGet(meta, "file_path", EmptyPath)
        given     == MetaGet(meta, "file_name", "")
    IN  [file_path |-> file_path,
         file_name |-> IF given # "" THEN given ELSE Basename(file_path)]

\* The chunks one document yields: each carries the document's metadata.
RECURSIVE Replicate(_, _)
Replicate(x, n) == IF n = 0 THEN <<>> ELSE <<x>> \o Replicate(x, n - 1)

ChunksOf(doc) == Replicate(NormalizeMetadata(doc.meta), doc.chunks)

RECURSIVE ChunksOfAll(_)
ChunksOfAll(docs) ==
    IF docs = <<>> THEN <<>> ELSE ChunksOf(Head(docs)) \o ChunksOfAll(Tail(docs))

\* What SimpleDirectoryReader yields for a file: both keys set.
DirDoc(dir, name, n) ==
    [meta |-> [file_path |-> <<"data", dir, name>>, file_name |-> name], chunks |-> n]

CorpusChoices(c) ==
    IF c = "manuals"
    THEN {<<>>, <<DirDoc("technical_manuals", "m1.pdf", 1)>>}
    ELSE {<<>>, <<DirDoc("online_resources", "o1.md", 1)>>}

EnvChoices == {ConfigKeys, ConfigKeys \ {"QDRANT_URL"}, ConfigKeys \ {"JINA_API_KEY"}}

(***************************************************************************)
(* Engine startup: lifespan (main.py) and AutoTechnicianRAG.__init__,      *)
(* load_or_create_indexes, load_index, create_index, _create_agent.        *)
(***************************************************************************)
NoOps == [c \in CollectionNames |-> {}]
Unseen == [c \in CollectionNames |-> "unseen"]

FreshProc ==
    [pc |-> "idle", col |-> 1, indexes |-> <<>>, agent |-> <<>>,
     installed |-> FALSE, err |-> "", saw |-> Unseen, ops |-> NoOps]

\* An agent built from the indexes alone.
CreateAgent_NoWebSearch(indexes) ==
    [i \in 1..Len(indexes) |-> IF indexes[i] = "manuals"
                               THEN "manuals_search"
                               ELSE "online_resources_search"]

\* _create_agent: the web search first, then one tool per index in the
\* insertion order of self.indexes.
CreateAgent(indexes) ==
    <<"duckduckgo_search">> \o
        [i \in 1..Len(indexes) |-> IF indexes[i] = "manuals"
                                   THEN "manuals_search"
                                   ELSE "online_resources_search"]

\* lifespan 21-57: the configuration the startup refuses to run without.
ConfigPresent(e) ==
    /\ "MONGODB_URI" \in e
    /\ "GROQ_API_KEY" \in e
    /\ "QDRANT_URL" \in e
    /\ "QDRANT_API_KEY" \in e

Fail(r, why) == [r EXCEPT !.pc = "failed", !.err = why]

\* The collection a process is working on.
Col(p) == CollectionOrder[proc[p].col]

\* load_or_create_indexes after one collection is loaded or built: the next
\* collection, or _create_agent and (lifespan 60) the pipeline on app.state.
Advance(r) ==
    IF r.col < Len(CollectionOrder)
    THEN [r EXCEPT !.col = r.col + 1, !.pc = "check"]
    ELSE [r EXCEPT !.agent = CreateAgent(r.indexes), !.installed = TRUE,
                   !.pc = "ready"]

\* A startup that never looks at what get_collections returned.
TakesLoadBranch_AlwaysCreate(collection_exists) == FALSE

\* load_or_create_indexes 128: the branch taken for a collection.
TakesLoadBranch(collection_exists) == collection_exists

Lifespan(p) ==
    /\ proc[p].pc = "idle"
    /\ runs[p] < MaxRuns
    /\ runs' = [runs EXCEPT ![p] = runs[p] + 1]
    /\ proc' = [proc EXCEPT ![p] =
                  IF ConfigPresent(env)
                  THEN [FreshProc EXCEPT !.pc = "check"]
                  ELSE Fail(FreshProc, "config")]
    /\ UNCHANGED <<env, corpus, storeVars, uploader, queryVars, docsVars, extVars>>

\* get_collections, then load_index when the collection is there.
CheckCollection(p) ==
    /\ proc[p].pc = "check"
    /\ LET c == Col(p)
           r == [proc[p] EXCEPT !.saw[c] = IF c \in existing
                                           THEN "present" ELSE "absent"]
       IN  proc' = [proc EXCEPT ![p] =
                IF TakesLoadBranch(c \in existing)
                THEN Advance([r EXCEPT !.indexes = Append(r.indexes, c)])
                ELSE [r EXCEPT !.pc = "create"]]
    /\ UNCHANGED <<env, corpus, storeVars, runs, uploader, queryVars, docsVars, extVars>>

\* create_index 151-170: create_collection; Qdrant refuses a name that exists.
CreateCollection(p) ==
    /\ proc[p].pc = "create"
    /\ LET c == Col(p)
           r == [proc[p] EXCEPT !.ops[c] = @ \cup {"create_call"}]
       IN  IF c \in existing
           THEN /\ proc' = [proc EXCEPT ![p] = Fail(r, "create_conflict")]
                /\ UNCHANGED storeVars
           ELSE /\ existing' = existing \cup {c}
                /\ creates' = [creates EXCEPT ![c] = @ + 1]
                /\ proc' = [proc EXCEPT ![p] = [r EXCEPT !.pc = "build"]]
                /\ UNCHANGED collections
    /\ UNCHANGED <<env, corpus, runs, uploader, queryVars, docsVars, extVars>>

\* A create_index without the guard.
RejectsCorpus_NoGuard(documents) == FALSE

\* create_index 188: the guard against an empty corpus.
RejectsCorpus(documents) == documents = <<>>

\* create_index 178-206: read the directory, refuse an empty corpus, embed
\* and write.  The embedding provider may fail, and does without its key.
BuildIndex(p) ==
    /\ proc[p].pc = "build"
    /\ LET c == Col(p)
           documents == corpus[c]
           r == [proc[p] EXCEPT !.ops[c] = @ \cup {"read"}]
       IN  IF RejectsCorpus(documents)
           THEN /\ proc' = [proc EXCEPT ![p] = Fail(r, "no_documents")]
                /\ UNCHANGED storeVars
           ELSE \E embedded \in BOOLEAN :
                  /\ embedded => "JINA_API_KEY" \in env
                  /\ IF embedded
                     THEN /\ collections' = [collections EXCEPT ![c] =
                                                @ \o ChunksOfAll(documents)]
                          /\ proc' = [proc EXCEPT ![p] =
                               Advance([r EXCEPT
                                   !.indexes = Append(r.indexes, c),
                                   !.ops[c] = @ \cup {"embed", "write"}])]
                     ELSE /\ proc' = [proc EXCEPT ![p] =
                               Fail([r EXCEPT !.ops[c] = @ \cup {"embed"}],
                                    "provider")]
                          /\ UNCHANGED collections
                  /\ UNCHANGED <<existing, creates>>
    /\ UNCHANGED <<env, corpus, runs, uploader, queryVars, docsVars, extVars>>

\* The process ends (startup failed, or the server is stopped); the slot can
\* start again as a new process with a new engine.
Exit(p) ==
    /\ proc[p].pc \in {"ready", "failed"}
    /\ runs[p] < MaxRuns
    /\ proc' = [proc EXCEPT ![p] = FreshProc]
    /\ UNCHANGED <<env, corpus, storeVars, runs, uploader, queryVars, docsVars, extVars>>

(***************************************************************************)
(* upload_batch_to_qdrant (batch_upload.py 102-222) for one batch.         *)
(***************************************************************************)
IdleUploader == [pc |-> "idle", name |-> "online_resources", docs |-> <<>>,
                 result |-> None, conflict |-> FALSE]

BatchChoices == {<<DirDoc("online_resources", "b1.md", 1)>>}

\* 106-159: the environment check and the documents of the batch.
UploadStart ==
    /\ uploader.pc = "idle"
    /\ {"QDRANT_URL", "QDRANT_API_KEY", "JINA_API_KEY", "GROQ_API_KEY"} \subseteq env
    /\ \E name \in CollectionNames, docs \in BatchChoices :
         uploader' = [pc |-> "check", name |-> name, docs |-> docs,
                      result |-> None, conflict |-> FALSE]
    /\ UNCHANGED <<env, corpus, storeVars, proc, runs, queryVars, docsVars, extVars>>

\* 166-171 and 206-218: get_collections; an existing collection is extended.
UploadCheck ==
    /\ uploader.pc = "check"
    /\ IF uploader.name \in existing
       THEN \E inserted \in BOOLEAN :
              /\ uploader' = [uploader EXCEPT !.pc = "done", !.result = inserted]
              /\ collections' = [collections EXCEPT ![uploader.name] =
                    IF inserted THEN @ \o ChunksOfAll(uploader.docs) ELSE @]
       ELSE /\ uploader' = [uploader EXCEPT !.pc = "create"]
            /\ UNCHANGED collections
    /\ UNCHANGED <<env, corpus, existing, creates, proc, runs, queryVars, docsVars, extVars>>

\* 179-198: create_collection inside the try block: a refusal returns False.
UploadCreate ==
    /\ uploader.pc = "create"
    /\ IF uploader.name \in existing
       THEN /\ uploader' = [uploader EXCEPT !.pc = "done", !.result = FALSE,
                                            !.conflict = TRUE]
            /\ UNCHANGED storeVars
       ELSE /\ existing' = existing \cup {uploader.name}
            /\ creates' = [creates EXCEPT ![uploader.name] = @ + 1]
            /\ uploader' = [uploader EXCEPT !.pc = "index"]
            /\ UNCHANGED collections
    /\ UNCHANGED <<env, corpus, proc, runs, queryVars, docsVars, extVars>>

\* 201-204 and 217-222: VectorStoreIndex.from_documents on the new collection.
UploadIndex ==
    /\ uploader.pc = "index"
    /\ \E embedded \in BOOLEAN :
         /\ uploader' = [uploader EXCEPT !.pc = "done", !.result = embedded]
         /\ collections' = [collections EXCEPT ![uploader.name] =
               IF embedded THEN @ \o ChunksOfAll(uploader.docs) ELSE @]
    /\ UNCHANGED <<env, corpus, existing, creates, proc, runs, queryVars, docsVars, extVars>>

(***************************************************************************)
(* SpecStartup                                                             *)
(***************************************************************************)
InitQueryIdle ==
    /\ sessions = <<>>
    /\ memory = <<>>
    /\ cur = NoQuery
    /\ last = NoResult
    /\ nq = 0

InitDocsIdle ==
    /\ listResult = [called |-> FALSE]
    /\ addResult = [called |-> FALSE]
    /\ nadds = 0

\* No metadata loop is running.
IdleIngest == [path |-> None, docs |-> <<>>, out |-> <<>>]

Handlers == {"h1", "h2"}

\* A request that has not arrived.
IdleHandler ==
    [pc |-> "idle", via |-> None, ready |-> FALSE, sid |-> None, given |-> FALSE,
     query |-> None, n |-> 0, status |-> 0, detail |-> "", answer |-> "",
     history |-> <<>>]

EmptyMongo == [chats |-> <<>>, sessions |-> {}, documents |-> <<>>, users |-> {}]

\* No upload request has arrived.
IdleUpload ==
    [pc |-> "idle", content_type |-> None, file_name |-> None, docs |-> <<>>,
     success |-> FALSE, status |-> 0, detail |-> ""]

\* process_folder has not been called.
IdleFolder ==
    [pc |-> "idle", files |-> <<>>, max |-> 0, k |-> 0, batches |-> <<>>,
     current_batch |-> <<>>, current_batch_tokens |-> 0]

\* main() has not reached its batch loop.
IdleLoop ==
    [pc |-> "idle", len |-> 0, k |-> 0, i |-> 0, success |-> FALSE,
     attempts |-> <<>>, out |-> <<>>]

\* No request has reached the auth router.
\* No token, no claims, no user (Python's None).
NoToken == [sub |-> None, role |-> None, exp |-> None, key |-> None]
NoPayload == [sub |-> None, role |-> None]
NoUser == [username |-> None, role |-> None]

IdleAuth ==
    [pc |-> "idle", username |-> None, token |-> NoToken, status |-> 0,
     user |-> NoUser]

InitToolIdle ==
    /\ upload = IdleUpload
    /\ folder = IdleFolder
    /\ loop = IdleLoop
    /\ auth = IdleAuth

InitExtIdle ==
    /\ ingest = IdleIngest
    /\ handler = [h \in Handlers |-> IdleHandler]
    /\ mongo = EmptyMongo
    /\ InitToolIdle


InitStartup ==
    /\ env \in EnvChoices
    /\ corpus \in {f \in [CollectionNames -> UNION {CorpusChoices(c) : c \in CollectionNames}] :
                      \A c \in CollectionNames : f[c] \in CorpusChoices(c)}
    /\ existing = {}
    /\ collections = [c \in CollectionNames |-> <<>>]
    /\ creates = [c \in CollectionNames |-> 0]
    /\ proc = [p \in Procs |-> FreshProc]
    /\ runs = [p \in Procs |-> 0]
    /\ uploader = IdleUploader
    /\ InitQueryIdle
    /\ InitDocsIdle
    /\ InitExtIdle

NextStartup ==
    \/ \E p \in Procs : Lifespan(p)
    \/ \E p \in Procs : CheckCollection(p)
    \/ \E p \in Procs : CreateCollection(p)
    \/ \E p \in Procs : BuildIndex(p)
    \/ \E p \in Procs : Exit(p)
    \/ UploadStart
    \/ UploadCheck
    \/ UploadCreate
    \/ UploadIndex

SpecStartup == InitStartup /\ [][NextStartup]_vars

(***************************************************************************)
(* AutoTechnicianRAG.query (rag.py 259-280) on a constructed engine.       *)
(*                                                                         *)
(* chat.py calls rag_pipeline.query synchronously from an async handler,   *)
(* so at most one query is inside it at a time (cur).  agent.chat runs the *)
(* ReAct loop: each completion of the LLM names a tool of the roster, or   *)
(* gives the answer, or the call fails.  Nothing in the repository         *)
(* constrains the completion beyond the text of SYSTEM_PROMPT, so it is a  *)
(* choice here.  The agent is built once, with one ChatMemoryBuffer; a     *)
(* chat that returns commits its user and assistant message to it, and the *)
(* context of the next chat is the buffer's token-limited window.          *)
(***************************************************************************)
Engine == "p1"

SessionIds == {"s1", "s2"}

\* Texts a caller may send, and what they are about.
QueryTexts == {"brake_fault", "weather_today", "long_fault_log"}

InDomain(q) == q # "weather_today"

\* SYSTEM_PROMPT 74: the fixed refusal.
Refusal == "Sorry, I can only help you with issues related to vehicle troubleshooting and diagnosis."

AnswerTexts == {"grounded_answer", Refusal, ""}

\* Token counts of the texts (the tokenizer is the memory buffer's).
Tokens(text) ==
    CASE text = "brake_fault"     -> 1000
      [] text = "weather_today"   -> 20
      [] text = "long_fault_log"  -> 5000
      [] text = "grounded_answer" -> 1500
      [] text = Refusal           -> 20
      [] OTHER                    -> 0

\* _create_agent 254: ChatMemoryBuffer.from_defaults(token_limit=4096).
TokenLimit == 4096

\* SYSTEM_PROMPT 45-48: the order the prompt asks the LLM to follow.
PromptToolOrder == <<"manuals_search", "online_resources_search", "duckduckgo_search">>

ToolOutcomes == {"hits", "empty", "raise"}

RECURSIVE TokenCount(_)
TokenCount(msgs) ==
    IF msgs = <<>> THEN 0 ELSE Tokens(Head(msgs).content) + TokenCount(Tail(msgs))

LastN(s, k) == SubSeq(s, Len(s) - k + 1, Len(s))

\* ChatMemoryBuffer.get: chat_history[-message_count:]; with a count of 0 the
\* slice is the whole history.
Slice(mem, count) == IF count = 0 THEN mem ELSE LastN(mem, count)

\* The window never starts with an assistant message.
RECURSIVE SkipAssistant(_, _)
SkipAssistant(mem, count) ==
    IF count > 0 /\ mem[Len(mem) - count + 1].role = "assistant"
    THEN SkipAssistant(mem, count - 1)
    ELSE count

RECURSIVE Shrink(_, _, _)
Shrink(mem, count, limit) ==
    IF TokenCount(Slice(mem, count)) > limit /\ count > 1
    THEN Shrink(mem, SkipAssistant(mem, count - 1), limit)
    ELSE IF TokenCount(Slice(mem, count)) > limit \/ count <= 0
         THEN <<>>
         ELSE Slice(mem, count)

\* What the agent reads from its memory at the start of a chat: the longest
\* suffix within the token limit, oldest messages dropped first.
Window(mem) == Shrink(mem, Len(mem), TokenLimit)

\* A chat that starts over with an empty buffer.
MemoryAfterChat_Forgetful(mem, userMsg, assistantMsg) == <<userMsg, assistantMsg>>

\* agent.chat on return: the user message and the response join the one
\* buffer the agent was built with.
MemoryAfterChat(mem, userMsg, assistantMsg) == mem \o <<userMsg, assistantMsg>>

\* A query that starts the session's list over.
AppendTurn_Rewrite(sess, sid, turn) ==
    [s \in (DOMAIN sess) \cup {sid} |-> IF s = sid THEN <<turn>> ELSE sess[s]]

\* self.sessions[session_id].append(turn), the list created on first use.
AppendTurn(sess, sid, turn) ==
    [s \in (DOMAIN sess) \cup {sid} |->
        IF s = sid
        THEN (IF sid \in DOMAIN sess THEN sess[sid] ELSE <<>>) \o <<turn>>
        ELSE sess[s]]

\* get_history 282-283.
GetHistory(sid) == IF sid \in DOMAIN sessions THEN sessions[sid] ELSE <<>>

Roster == proc[Engine].agent

\* name in self.indexes
InSeqOfIndexes(name) ==
    \E i \in 1..Len(proc[Engine].indexes) : proc[Engine].indexes[i] = name

UserTurn(q, n) == [role |-> "user", content |-> q, n |-> n]
AssistantTurn(a, n) == [role |-> "assistant", content |-> a, n |-> n]

\* A message of the agent's memory; sid records the session whose query put
\* it there (the buffer itself has no such field).
Message(turn, sid) ==
    [role |-> turn.role, content |-> turn.content, n |-> turn.n, sid |-> sid]

\* Bound of the model: the n-th query of a run gets MaxSteps - (n - 1) rounds
\* of the ReAct loop before the agent must answer or give up.
RoundsAllowed(n) == IF MaxSteps - (n - 1) > 0 THEN MaxSteps - (n - 1) ELSE 0

ToolNames(calls) == [i \in 1..Len(calls) |-> calls[i].tool]

\* The tools built from an index (QueryEngineTool); duckduckgo_search is a
\* FunctionTool, whose output carries no source nodes.
QueryEngineTools == {"manuals_search", "online_resources_search"}

\* The passages a tool call adds to the sources of the running chat: those a
\* query engine retrieved.  A passage is named by the tool, the query and the
\* round that surfaced it.
Passages(tool, outcome, n, k) ==
    IF tool \in QueryEngineTools /\ outcome = "hits"
    THEN <<[tool |-> tool, n |-> n, k |-> k]>>
    ELSE <<>>

\* The nodes behind the response that returned last.
EarlierSources ==
    IF last # NoResult
    THEN [i \in 1..Len(last.source_nodes) |-> last.source_nodes[i].text]
    ELSE <<>>

\* A chat that goes on with the sources of the chat before it.
NewTaskSources_Carried(earlier) == earlier

\* agent.chat starts each chat with an empty list of sources; the response
\* it returns carries the sources of that chat only.
NewTaskSources(earlier) == <<>>

\* query 271-274: one {text, score} per node of response.source_nodes, in
\* the order of the response.
SourceNodes(response_source_nodes) ==
    [i \in 1..Len(response_source_nodes) |->
        [text |-> response_source_nodes[i], score |-> "score"]]

\* query 260-268, and agent.chat reading its memory.
QueryStart(sid, q) ==
    /\ cur = NoQuery
    /\ nq < MaxQueries
    /\ proc[Engine].pc = "ready"
    /\ nq' = nq + 1
    /\ IF Roster = <<>>
       THEN /\ last' = [n |-> nq + 1, sid |-> sid, query |-> q, status |-> "error",
                        err |-> "agent_not_created", answer |-> "", calls |-> <<>>,
                        source_nodes |-> <<>>, before |-> sessions]
            /\ UNCHANGED <<sessions, cur>>
       ELSE /\ sessions' = AppendTurn(sessions, sid, UserTurn(q, nq + 1))
            /\ cur' = [sid |-> sid, query |-> q, n |-> nq + 1,
                       context |-> Window(memory), calls |-> <<>>,
                       sources |-> NewTaskSources(EarlierSources),
                       before |-> sessions]
            /\ last' = NoResult
    /\ UNCHANGED <<env, corpus, storeVars, startVars, memory, docsVars, ingest, toolVars>>

\* The query leaves by an exception: the user turn stays in the session
\* list, no assistant turn is added, agent.chat committed nothing.
Raised(why) ==
    /\ last' = [n |-> cur.n, sid |-> cur.sid, query |-> cur.query,
                status |-> "error", err |-> why, answer |-> "",
                calls |-> cur.calls, source_nodes |-> <<>>,
                before |-> cur.before]
    /\ cur' = NoQuery
    /\ UNCHANGED <<sessions, memory>>

\* One round of the ReAct loop: the completion names a tool of the roster
\* and the tool runs.  A tool that raises (helpers.py 93-98 has no handler,
\* nor have the query engines) either reaches the LLM as an error
\* observation or ends agent.chat, depending on the agent library.
AgentToolCall(tool, outcome, wrapped) ==
    /\ cur # NoQuery
    /\ Len(cur.calls) < RoundsAllowed(cur.n)
    /\ \E i \in 1..Len(Roster) : Roster[i] = tool
    /\ LET call == [tool |-> tool, outcome |-> outcome]
       IN  IF outcome = "raise" /\ ~wrapped
           THEN /\ last' = [n |-> cur.n, sid |-> cur.sid, query |-> cur.query,
                            status |-> "error", err |-> "tool_raised",
                            answer |-> "", calls |-> Append(cur.calls, call),
                            source_nodes |-> <<>>, before |-> cur.before]
                /\ cur' = NoQuery
           ELSE /\ cur' = [cur EXCEPT
                              !.calls = Append(cur.calls, call),
                              !.sources = @ \o Passages(tool, outcome, cur.n,
                                                        Len(cur.calls) + 1)]
                /\ UNCHANGED last
    /\ UNCHANGED <<env, corpus, storeVars, startVars, sessions, memory, nq, docsVars, ingest, toolVars>>

\* The completion gives the answer: agent.chat returns, query 271-280.
AgentAnswer(answer) ==
    /\ cur # NoQuery
    /\ sessions' = AppendTurn(sessions, cur.sid, AssistantTurn(answer, cur.n))
    /\ memory' = MemoryAfterChat(memory,
                    Message(UserTurn(cur.query, cur.n), cur.sid),
                    Message(AssistantTurn(answer, cur.n), cur.sid))
    /\ last' = [n |-> cur.n, sid |-> cur.sid, query |-> cur.query,
                status |-> "ok", err |-> "", answer |-> answer,
                calls |-> cur.calls, source_nodes |-> SourceNodes(cur.sources),
                before |-> cur.before]
    /\ cur' = NoQuery
    /\ UNCHANGED <<env, corpus, storeVars, startVars, nq, docsVars, ingest, toolVars>>

\* The completion call fails, cannot be parsed, or the loop runs out of
\* iterations: agent.chat raises and query has no handler.
AgentRaise(why) ==
    /\ cur # NoQuery
    /\ Raised(why)
    /\ UNCHANGED <<env, corpus, storeVars, startVars, nq, docsVars, ingest, toolVars>>

\* A warm start: both collections were there and hold the corpus.
ReadyProc ==
    [FreshProc EXCEPT !.pc = "ready", !.col = Len(CollectionOrder),
                      !.indexes = CollectionOrder,
                      !.agent = CreateAgent(CollectionOrder),
                      !.installed = TRUE,
                      !.saw = [c \in CollectionNames |-> "present"]]

FullCorpus ==
    [c \in CollectionNames |->
        CHOOSE docs \in CorpusChoices(c) : docs # <<>>]

InitServing ==
    /\ env = ConfigKeys
    /\ corpus = FullCorpus
    /\ existing = CollectionNames
    /\ collections = [c \in CollectionNames |-> ChunksOfAll(FullCorpus[c])]
    /\ creates = [c \in CollectionNames |-> 1]
    /\ proc = [p \in Procs |-> IF p = Engine THEN ReadyProc ELSE FreshProc]
    /\ runs = [p \in Procs |-> IF p = Engine THEN MaxRuns ELSE 0]
    /\ uploader = IdleUploader

InitQuery == InitServing /\ InitQueryIdle /\ InitDocsIdle /\ InitExtIdle

NextQuery ==
    \/ \E sid \in SessionIds, q \in QueryTexts :
          QueryStart(sid, q) /\ UNCHANGED chatVars
    \/ \E tool \in {PromptToolOrder[i] : i \in 1..Len(PromptToolOrder)},
          outcome \in ToolOutcomes, wrapped \in BOOLEAN :
          AgentToolCall(tool, outcome, wrapped) /\ UNCHANGED chatVars
    \/ \E answer \in AnswerTexts : AgentAnswer(answer) /\ UNCHANGED chatVars
    \/ \E why \in {"provider_error", "max_iterations"} :
          AgentRaise(why) /\ UNCHANGED chatVars

SpecQuery == InitQuery /\ [][NextQuery]_vars

(***************************************************************************)
(* add_documents (rag.py 208-233) and list_manuals (rag.py 285-302).       *)
(***************************************************************************)
\* client.scroll is called without a limit: it returns one page of at most
\* this many points, in the order of their ids.
ScrollLimit == 10

\* Documents handed to add_documents: an upload parsed by LlamaParse carries
\* the file_name of extra_info and no file_path (documents.py 64-75).
UploadedDoc(name) == [meta |-> [file_name |-> name], chunks |-> 1]
PathOnlyDoc(path) == [meta |-> [file_path |-> path], chunks |-> 1]
BareDoc == [meta |-> <<>>, chunks |-> 1]

AddChoices ==
    {<<UploadedDoc("u1.pdf")>>,
     <<DirDoc("technical_manuals", "m2.pdf", 1)>>,
     <<PathOnlyDoc(<<"a", "b", "manual.pdf">>), BareDoc>>}

\* The manuals corpus of the cold start that built the collection.
ManualsChoices ==
    {<<DirDoc("technical_manuals", "m1.pdf", 1)>>,
     <<DirDoc("technical_manuals", "m1.pdf", ScrollLimit)>>}

\* An add_documents that writes to the other collection.
AddTarget_Elsewhere == "online_resources"

\* add_documents 223: index = self.indexes["manuals"].
AddTarget == "manuals"

\* An add_documents that undoes its inserts when one fails.
WrittenBy_RolledBack(markdown_documents, inserted) ==
    IF inserted = Len(markdown_documents) THEN markdown_documents ELSE <<>>

\* add_documents 226-227: the documents whose index.insert has returned when
\* the loop ends or an insert raises; nothing is taken back.
WrittenBy(markdown_documents, inserted) == SubSeq(markdown_documents, 1, inserted)

\* add_documents: the first `inserted` documents are written, then
\* index.insert fails (or, with inserted = Len, the call returns True).
AddDocumentsCall(markdown_documents, inserted) ==
    /\ nadds < MaxAdds
    /\ proc[Engine].pc = "ready"
    /\ nadds' = nadds + 1
    /\ IF ~InSeqOfIndexes(AddTarget)
       THEN /\ addResult' = [called |-> TRUE, ok |-> FALSE, inserted |-> 0,
                             docs |-> markdown_documents, before |-> collections]
            /\ UNCHANGED collections
       ELSE /\ collections' = [collections EXCEPT ![AddTarget] =
                 @ \o ChunksOfAll(WrittenBy(markdown_documents, inserted))]
            /\ addResult' = [called |-> TRUE,
                             ok |-> inserted = Len(markdown_documents),
                             inserted |-> inserted,
                             docs |-> markdown_documents, before |-> collections]

\* add_documents called on the engine directly.
AddDocuments(markdown_documents, inserted) ==
    /\ AddDocumentsCall(markdown_documents, inserted)
    /\ UNCHANGED <<env, corpus, existing, creates, startVars, queryVars, listResult, extVars>>

\* list_manuals 290-298: one {file_name} per non-empty file_path, in the
\* order the paths are first met.
RECURSIVE UniqueFilepaths(_, _)
UniqueFilepaths(records, seen) ==
    IF records = <<>>
    THEN <<>>
    ELSE LET r == Head(records)
         IN  IF r.file_path # EmptyPath /\ r.file_path \notin seen
             THEN <<[file_name |-> r.file_name]>>
                      \o UniqueFilepaths(Tail(records), seen \cup {r.file_path})
             ELSE UniqueFilepaths(Tail(records), seen)

\* The elements of s at the positions in idx, in order.
RECURSIVE Pick(_, _, _)
Pick(s, idx, i) ==
    IF i > Len(s) THEN <<>>
    ELSE (IF i \in idx THEN <<s[i]>> ELSE <<>>) \o Pick(s, idx, i + 1)

\* The pages scroll may return: any ScrollLimit of the stored points (the
\* ids are random), all of them when there are no more than that.
ScrollPages(stored) ==
    LET n == Len(stored)
        size == IF n < ScrollLimit THEN n ELSE ScrollLimit
    IN  {Pick(stored, idx, 1) : idx \in {S \in SUBSET (1..n) : Cardinality(S) = size}}

\* list_manuals; a failing scroll is caught and gives the empty list.
ListManuals ==
    /\ proc[Engine].pc = "ready"
    /\ \/ \E page \in ScrollPages(collections["manuals"]) :
            listResult' = [called |-> TRUE, ok |-> TRUE,
                           manuals |-> UniqueFilepaths(page, {}),
                           stored |-> collections["manuals"]]
       \/ listResult' = [called |-> TRUE, ok |-> FALSE, manuals |-> <<>>,
                         stored |-> collections["manuals"]]
    /\ UNCHANGED <<env, corpus, storeVars, startVars, queryVars, addResult, nadds, extVars>>

InitDocs ==
    /\ env = ConfigKeys
    /\ \E manuals \in ManualsChoices :
         /\ corpus = [FullCorpus EXCEPT !["manuals"] = manuals]
         /\ collections = [c \in CollectionNames |->
                IF c = "manuals" THEN ChunksOfAll(manuals)
                ELSE ChunksOfAll(FullCorpus[c])]
    /\ existing = CollectionNames
    /\ creates = [c \in CollectionNames |-> 1]
    /\ proc = [p \in Procs |-> IF p = Engine THEN ReadyProc ELSE FreshProc]
    /\ runs = [p \in Procs |-> IF p = Engine THEN MaxRuns ELSE 0]
    /\ uploader = IdleUploader
    /\ InitQueryIdle
    /\ InitDocsIdle
    /\ InitExtIdle

NextDocs ==
    \/ \E docs \in AddChoices : \E inserted \in 0..Len(docs) :
          AddDocuments(docs, inserted)
    \/ ListManuals

SpecDocs == InitDocs /\ [][NextDocs]_vars

(***************************************************************************)
(* POST /documents/upload (documents.py 38-102): the content type is       *)
(* checked, the file is parsed, the documents go to add_documents (a call  *)
(* without await) and the upload is recorded in the documents collection   *)
(* of MongoDB.  Requests are taken one after the other.                    *)
(***************************************************************************)
ContentTypes == {"application/pdf", "text/plain"}
FileNames == {"u1.pdf", "notes.txt"}

\* What LlamaParse returns for a file: one Document per page, each with
\* the extra_info of lines 64-68 as metadata; none for a file without text.
ParseChoices(name) ==
    {<<>>, <<UploadedDoc(name)>>, <<UploadedDoc(name), UploadedDoc(name)>>}

\* An upload that takes any content type.
IsPdf_Any(content_type) == TRUE

\* upload_document 49: file.content_type != "application/pdf".
IsPdf(content_type) == content_type = "application/pdf"

\* An upload that records the document whatever add_documents returned.
Ingested_Unchecked(success) == TRUE

\* upload_document 80: `if not success`.
Ingested(success) == success

\* The except branch, documents.py 99-102.
UploadError(r) ==
    [r EXCEPT !.pc = "done", !.status = 500,
              !.detail = "Error processing document upload"]

\* upload_document 49-75: the request arrives, a file that is not a PDF is
\* refused, a PDF is read and parsed; the parser may raise.
UploadDocument(content_type, name, parsed) ==
    /\ upload.pc \in {"idle", "done"}
    /\ proc[Engine].pc = "ready"
    /\ LET arrived == [IdleUpload EXCEPT !.content_type = content_type,
                                         !.file_name = name]
       IN  upload' =
              IF ~IsPdf(content_type)
              THEN [arrived EXCEPT !.pc = "done", !.status = 400,
                                   !.detail = "Invalid file type"]
              ELSE IF parsed
              THEN [arrived EXCEPT !.pc = "parsed"]
              ELSE UploadError(arrived)
    /\ UNCHANGED <<env, corpus, storeVars, startVars, queryVars, docsVars, ingest,
                   chatVars, folder, loop, auth>>

\* upload_document 78-84: add_documents, and the test of what it returned.
UploadAdd(markdown_documents, inserted) ==
    /\ upload.pc = "parsed"
    /\ cur = NoQuery
    /\ AddDocumentsCall(markdown_documents, inserted)
    /\ upload' = IF Ingested(addResult'.ok)
                 THEN [upload EXCEPT !.pc = "added", !.docs = markdown_documents,
                                     !.success = addResult'.ok]
                 ELSE UploadError([upload EXCEPT !.docs = markdown_documents,
                                                 !.success = addResult'.ok])
    /\ UNCHANGED <<env, corpus, existing, creates, startVars, queryVars, listResult,
                   ingest, chatVars, folder, loop, auth>>

\* upload_document 87-97: the record of the upload; the insert may raise.
UploadRecord(stored) ==
    /\ upload.pc = "added"
    /\ IF stored
       THEN /\ mongo' = [mongo EXCEPT !.documents =
                   Append(@, [file_name |-> upload.file_name,
                              status |-> "processed"])]
            /\ upload' = [upload EXCEPT !.pc = "done", !.status = 200]
       ELSE /\ upload' = UploadError(upload)
            /\ UNCHANGED mongo
    /\ UNCHANGED <<env, corpus, storeVars, startVars, queryVars, docsVars, ingest,
                   handler, folder, loop, auth>>

NextUpload ==
    \/ \E content_type \in ContentTypes, name \in FileNames, parsed \in BOOLEAN :
          UploadDocument(content_type, name, parsed)
    \/ \E docs \in ParseChoices(upload.file_name) : \E inserted \in 0..Len(docs) :
          UploadAdd(docs, inserted)
    \/ \E stored \in BOOLEAN : UploadRecord(stored)

SpecUpload == InitDocs /\ [][NextUpload]_vars

(***************************************************************************)
(* The metadata loops of create_index (rag.py 194-200) and add_documents   *)
(* (rag.py 211-220) on documents of every shape: with and without the      *)
(* file_path and file_name keys, empty and non-empty.                      *)
(***************************************************************************)
MetaPaths == {EmptyPath, <<"manual.pdf">>, <<"a", "b", "manual.pdf">>}
MetaNames == {"", "manual.pdf", "other.pdf"}

MetaChoices ==
    {<<>>}
    \cup {[file_path |-> p] : p \in MetaPaths}
    \cup {[file_name |-> n] : n \in MetaNames}
    \cup {[file_path |-> p, file_name |-> n] : p \in MetaPaths, n \in MetaNames}

\* The metadata of the documents handed to one call.
IngestChoices ==
    UNION {[1..k -> MetaChoices] : k \in 1..MaxDocs}

\* create_index 194-200: one round of `for doc in documents`.
CreateIndexMetadata ==
    /\ ingest.path \in {None, "create_index"}
    /\ Len(ingest.out) < Len(ingest.docs)
    /\ ingest' = [ingest EXCEPT
           !.path = "create_index",
           !.out = Append(@, NormalizeMetadata(ingest.docs[Len(ingest.out) + 1]))]
    /\ UNCHANGED <<env, corpus, storeVars, startVars, queryVars, docsVars, chatVars, toolVars>>

\* add_documents 211-220: one round of `for doc in markdown_documents`.
AddDocumentsMetadata ==
    /\ ingest.path \in {None, "add_documents"}
    /\ Len(ingest.out) < Len(ingest.docs)
    /\ ingest' = [ingest EXCEPT
           !.path = "add_documents",
           !.out = Append(@, NormalizeMetadata(ingest.docs[Len(ingest.out) + 1]))]
    /\ UNCHANGED <<env, corpus, storeVars, startVars, queryVars, docsVars, chatVars, toolVars>>

InitMetadata ==
    /\ InitServing
    /\ InitQueryIdle
    /\ InitDocsIdle
    /\ ingest \in {[IdleIngest EXCEPT !.docs = d] : d \in IngestChoices}
    /\ handler = [h \in Handlers |-> IdleHandler]
    /\ mongo = EmptyMongo
    /\ InitToolIdle

NextMetadata ==
    \/ CreateIndexMetadata
    \/ AddDocumentsMetadata

SpecMetadata == InitMetadata /\ [][NextMetadata]_vars

(***************************************************************************)
(* The /chat/query handler (chat.py 25-28 and 38-126) around              *)
(* AutoTechnicianRAG.query, with the chats and sessions collections of     *)
(* MongoDB (mongodb.py 47-67).                                             *)
(*                                                                         *)
(* A handler is a coroutine: it gives the event loop away at each await    *)
(* (the MongoDB calls), where another request's handler may run.           *)
(* rag_pipeline.query is called without await (chat.py 75) and agent.chat  *)
(* blocks, so from the call to its return the loop's only thread is taken: *)
(* no handler takes a step while a query is inside the engine.             *)
(***************************************************************************)
\* request.session_id: an id of the caller's, or none.
ChatSessionChoices == {"s1", None}

ChatTexts == {"brake_fault"}

\* generate_session_id: a uuid4, an id no other request has.
GeneratedId(h) == IF h = "h1" THEN "u1" ELSE "u2"

\* The event loop's thread is not inside rag_pipeline.query.
LoopFree == cur = NoQuery

\* A dependency that lets every request through.
PipelineInstalled_Always(r) == TRUE

\* get_rag_pipeline 26: hasattr(request.app.state, "rag_pipeline").
PipelineInstalled(r) == r.installed

\* query 260: `if not self.agent`.
AgentCreated(r) == r.agent # <<>>

\* The except branch of the handler: chat.py 123-126, and 293-299 for the
\* audio endpoint.
ProcessingError(r) ==
    [r EXCEPT !.pc = "done", !.status = 500,
              !.detail = IF r.via = "audio" THEN "Error processing audio query"
                         ELSE "Error processing query"]

\* The messages of a session in the order of their timestamps, which is the
\* order in which the handlers built them: get_chat_history, mongodb.py 47-49.
ChatHistoryOf(chats, sid) == SelectSeq(chats, LAMBDA m : m.session_id = sid)

\* Depends(get_rag_pipeline), then chat.py 46-61: the session id, and the
\* session record when the request brought none.
ChatBegin(h, p, session_id, q) ==
    /\ handler[h].pc = "idle"
    /\ LoopFree
    /\ IF ~PipelineInstalled(proc[p])
       THEN /\ handler' = [handler EXCEPT ![h] =
                   [@ EXCEPT !.pc = "done", !.via = "http",
                             !.ready = proc[p].pc = "ready", !.status = 500,
                             !.detail = "RAG pipeline not initialized"]]
            /\ UNCHANGED mongo
       ELSE /\ handler' = [handler EXCEPT ![h] =
                   [@ EXCEPT !.pc = "begun", !.via = "http",
                             !.ready = proc[p].pc = "ready",
                             !.sid = IF session_id = None
                                     THEN GeneratedId(h) ELSE session_id,
                             !.given = session_id # None,
                             !.query = q]]
            /\ mongo' = IF session_id = None
                        THEN [mongo EXCEPT !.sessions = @ \cup {GeneratedId(h)}]
                        ELSE mongo
    /\ UNCHANGED <<env, corpus, storeVars, startVars, queryVars, docsVars, ingest, toolVars>>

\* chat.py 64-72: the user message is stored.
ChatStoreUser(h) ==
    /\ handler[h].pc = "begun"
    /\ LoopFree
    /\ mongo' = [mongo EXCEPT !.chats =
           Append(@, [session_id |-> handler[h].sid, role |-> "user",
                      content |-> handler[h].query, h |-> h])]
    /\ handler' = [handler EXCEPT ![h].pc = "stored"]
    /\ UNCHANGED <<env, corpus, storeVars, startVars, queryVars, docsVars, ingest, toolVars>>

\* chat.py 75: the handler enters rag_pipeline.query.
ChatQuery(h) ==
    /\ handler[h].pc = "stored"
    /\ QueryStart(handler[h].sid, handler[h].query)
    /\ handler' = [handler EXCEPT ![h] =
           IF AgentCreated(proc[Engine])
           THEN [@ EXCEPT !.pc = "in_query", !.n = nq + 1]
           ELSE ProcessingError([@ EXCEPT !.n = nq + 1])]
    /\ UNCHANGED mongo

\* A round of the agent inside the query of handler h; a tool's exception
\* that is not turned into an observation leaves query and reaches 123-126.
ChatToolCall(h, tool, outcome, wrapped) ==
    /\ handler[h].pc = "in_query"
    /\ AgentToolCall(tool, outcome, wrapped)
    /\ handler' = [handler EXCEPT ![h] =
           IF outcome = "raise" /\ ~wrapped THEN ProcessingError(@) ELSE @]
    /\ UNCHANGED mongo

\* rag_pipeline.query returns its QueryResult to the handler.
ChatAnswer(h, answer) ==
    /\ handler[h].pc = "in_query"
    /\ AgentAnswer(answer)
    /\ handler' = [handler EXCEPT ![h] =
           [@ EXCEPT !.pc = "answered", !.answer = answer]]
    /\ UNCHANGED mongo

\* rag_pipeline.query raises: chat.py 123-126.
ChatRaise(h, why) ==
    /\ handler[h].pc = "in_query"
    /\ AgentRaise(why)
    /\ handler' = [handler EXCEPT ![h] = ProcessingError(@)]
    /\ UNCHANGED mongo

\* chat.py 77-99: the assistant message is stored.
ChatStoreAssistant(h) ==
    /\ handler[h].pc = "answered"
    /\ LoopFree
    /\ mongo' = [mongo EXCEPT !.chats =
           Append(@, [session_id |-> handler[h].sid, role |-> "assistant",
                      content |-> handler[h].answer, h |-> h])]
    /\ handler' = [handler EXCEPT ![h].pc = "saved"]
    /\ UNCHANGED <<env, corpus, storeVars, startVars, queryVars, docsVars, ingest, toolVars>>

\* chat.py 101-122: the history is read back and the response is sent.
ChatReturn(h) ==
    /\ handler[h].pc = "saved"
    /\ LoopFree
    /\ handler' = [handler EXCEPT ![h] =
           [@ EXCEPT !.pc = "done", !.status = 200,
                     !.history = ChatHistoryOf(mongo.chats, handler[h].sid)]]
    /\ UNCHANGED <<env, corpus, storeVars, startVars, queryVars, docsVars, ingest, toolVars,
                   mongo>>

InitChat == InitServing /\ InitQueryIdle /\ InitDocsIdle /\ InitExtIdle

NextChat ==
    \/ \E h \in Handlers, session_id \in ChatSessionChoices, q \in ChatTexts :
          ChatBegin(h, Engine, session_id, q)
    \/ \E h \in Handlers : ChatStoreUser(h)
    \/ \E h \in Handlers : ChatQuery(h)
    \/ \E h \in Handlers,
          tool \in {PromptToolOrder[i] : i \in 1..Len(PromptToolOrder)},
          outcome \in ToolOutcomes, wrapped \in BOOLEAN :
          ChatToolCall(h, tool, outcome, wrapped)
    \/ \E h \in Handlers, answer \in AnswerTexts : ChatAnswer(h, answer)
    \/ \E h \in Handlers, why \in {"provider_error", "max_iterations"} :
          ChatRaise(h, why)
    \/ \E h \in Handlers : ChatStoreAssistant(h)
    \/ \E h \in Handlers : ChatReturn(h)

SpecChat == InitChat /\ [][NextChat]_vars

(***************************************************************************)
(* The /chat/audio handler (chat.py 165-299).  After the transcription it  *)
(* goes the way of the text handler: user message, query, assistant        *)
(* message, history.                                                       *)
(***************************************************************************)
AudioHandlers == {"h1"}

\* What the transcription gives: the text, or none when Groq raises.
Transcripts == ChatTexts \cup {None}

\* `not x` on an Optional[str].
Falsy(x) == x = None

\* Depends(get_rag_pipeline), then audio_query 175-231: the transcription,
\* `session_id = session_id or generate_session_id()` (219), and the session
\* record under `if not session_id` (222), which tests the name just bound.
AudioBegin(h, p, session_id, transcript) ==
    /\ handler[h].pc = "idle"
    /\ LoopFree
    /\ LET bound == IF Falsy(session_id) THEN GeneratedId(h) ELSE session_id
           arrived == [handler[h] EXCEPT !.via = "audio",
                                         !.ready = proc[p].pc = "ready"]
       IN  IF ~PipelineInstalled(proc[p])
           THEN /\ handler' = [handler EXCEPT ![h] =
                       [arrived EXCEPT !.pc = "done", !.status = 500,
                                       !.detail = "RAG pipeline not initialized"]]
                /\ UNCHANGED mongo
           ELSE IF transcript = None
           THEN /\ handler' = [handler EXCEPT ![h] = ProcessingError(arrived)]
                /\ UNCHANGED mongo
           ELSE /\ handler' = [handler EXCEPT ![h] =
                       [arrived EXCEPT !.pc = "begun", !.sid = bound,
                                       !.given = ~Falsy(session_id),
                                       !.query = transcript]]
                /\ mongo' = IF Falsy(bound)
                            THEN [mongo EXCEPT !.sessions = @ \cup {bound}]
                            ELSE mongo
    /\ UNCHANGED <<env, corpus, storeVars, startVars, queryVars, docsVars, ingest, toolVars>>

NextAudio ==
    \/ \E h \in AudioHandlers, session_id \in ChatSessionChoices, q \in ChatTexts :
          ChatBegin(h, Engine, session_id, q)
    \/ \E h \in AudioHandlers, session_id \in ChatSessionChoices,
          transcript \in Transcripts :
          AudioBegin(h, Engine, session_id, transcript)
    \/ \E h \in AudioHandlers : ChatStoreUser(h)
    \/ \E h \in AudioHandlers : ChatQuery(h)
    \/ \E h \in AudioHandlers,
          tool \in {PromptToolOrder[i] : i \in 1..Len(PromptToolOrder)},
          outcome \in ToolOutcomes, wrapped \in BOOLEAN :
          ChatToolCall(h, tool, outcome, wrapped)
    \/ \E h \in AudioHandlers, answer \in AnswerTexts : ChatAnswer(h, answer)
    \/ \E h \in AudioHandlers, why \in {"provider_error", "max_iterations"} :
          ChatRaise(h, why)
    \/ \E h \in AudioHandlers : ChatStoreAssistant(h)
    \/ \E h \in AudioHandlers : ChatReturn(h)

SpecAudio == InitChat /\ [][NextAudio]_vars

(***************************************************************************)
(* Requests that reach a process whose startup has not completed: the      *)
(* startup actions, with the handler's dependency and a call of query on   *)
(* an engine that is still being constructed.                              *)
(***************************************************************************)
EarlyHandlers == {"h1"}

\* query 259-263 on an engine whose constructor has not returned.
QueryBeforeReady(h, p) ==
    /\ handler[h].pc = "idle"
    /\ proc[p].pc \in {"check", "create", "build", "failed"}
    /\ handler' = [handler EXCEPT ![h] =
           IF ~AgentCreated(proc[p])
           THEN [@ EXCEPT !.pc = "done", !.via = "direct", !.ready = FALSE,
                          !.detail = "Agent not created"]
           ELSE [@ EXCEPT !.pc = "begun", !.via = "direct", !.ready = FALSE]]
    /\ UNCHANGED <<env, corpus, storeVars, startVars, queryVars, docsVars, ingest, toolVars,
                   mongo>>

NextEarly ==
    \/ \E p \in Procs : Lifespan(p)
    \/ \E p \in Procs : CheckCollection(p)
    \/ \E p \in Procs : CreateCollection(p)
    \/ \E p \in Procs : BuildIndex(p)
    \/ \E p \in Procs : Exit(p)
    \/ \E h \in EarlyHandlers, p \in Procs,
          session_id \in ChatSessionChoices, q \in ChatTexts :
          ChatBegin(h, p, session_id, q)
    \/ \E h \in EarlyHandlers, p \in Procs : QueryBeforeReady(h, p)

SpecEarly == InitStartup /\ [][NextEarly]_vars

(***************************************************************************)
(* process_folder (batch_upload.py 28-87): the files found by os.walk, in  *)
(* the order they are found, are put into batches by their token counts.   *)
(* A file is its position in all_files, the token count of its content     *)
(* and whether open/read/count_tokens go through without an exception.     *)
(***************************************************************************)
MaxFiles == 3

TokenCounts == {0, 2, 5}

\* Values of max_tokens_per_batch.
BatchLimits == {3, 4}

FileChoices ==
    UNION {[1..n -> [tokens : TokenCounts, readable : BOOLEAN]] : n \in 0..MaxFiles}

\* A split that does not look at what the current batch holds.
StartsNewBatch_EvenIfEmpty(current_batch_tokens, file_tokens, max, current_batch) ==
    current_batch_tokens + file_tokens > max

\* process_folder 56-59.
StartsNewBatch(current_batch_tokens, file_tokens, max, current_batch) ==
    /\ current_batch_tokens + file_tokens > max
    /\ current_batch # <<>>

\* process_folder 35-46: all_files is collected, the batches are empty.
ProcessFolder ==
    /\ folder.pc = "idle"
    /\ folder' = [folder EXCEPT !.pc = "loop", !.k = 0, !.batches = <<>>,
                                !.current_batch = <<>>,
                                !.current_batch_tokens = 0]
    /\ UNCHANGED <<env, corpus, storeVars, startVars, queryVars, docsVars, ingest,
                   chatVars, upload, loop, auth>>

\* process_folder 48-71: one round of `for file_path in all_files`; a file
\* that raises is reported and left out.
ForFile ==
    /\ folder.pc = "loop"
    /\ folder.k < Len(folder.files)
    /\ LET file_path == folder.k + 1
           file == folder.files[file_path]
           split == StartsNewBatch(folder.current_batch_tokens, file.tokens,
                                   folder.max, folder.current_batch)
       IN  folder' =
              IF ~file.readable
              THEN [folder EXCEPT !.k = file_path]
              ELSE [folder EXCEPT
                      !.k = file_path,
                      !.batches = IF split THEN Append(@, folder.current_batch)
                                  ELSE @,
                      !.current_batch = IF split THEN <<file_path>>
                                        ELSE Append(@, file_path),
                      !.current_batch_tokens = IF split THEN file.tokens
                                               ELSE @ + file.tokens]
    /\ UNCHANGED <<env, corpus, storeVars, startVars, queryVars, docsVars, ingest,
                   chatVars, upload, loop, auth>>

\* process_folder 73-87: the last batch is added when it is not empty, and
\* the batches are returned.
FolderReturn ==
    /\ folder.pc = "loop"
    /\ folder.k = Len(folder.files)
    /\ folder' = [folder EXCEPT
           !.pc = "done",
           !.batches = IF folder.current_batch # <<>>
                       THEN Append(@, folder.current_batch) ELSE @,
           !.current_batch = <<>>,
           !.current_batch_tokens = 0]
    /\ UNCHANGED <<env, corpus, storeVars, startVars, queryVars, docsVars, ingest,
                   chatVars, upload, loop, auth>>

InitFolder ==
    /\ InitServing
    /\ InitQueryIdle
    /\ InitDocsIdle
    /\ ingest = IdleIngest
    /\ handler = [h \in Handlers |-> IdleHandler]
    /\ mongo = EmptyMongo
    /\ upload = IdleUpload
    /\ folder \in {[IdleFolder EXCEPT !.files = f, !.max = m] :
                      f \in FileChoices, m \in BatchLimits}
    /\ loop = IdleLoop
    /\ auth = IdleAuth

NextFolder ==
    \/ ProcessFolder
    \/ ForFile
    \/ FolderReturn

SpecFolder == InitFolder /\ [][NextFolder]_vars

(***************************************************************************)
(* The batch loop of main() (batch_upload.py 251-274).  The operator's     *)
(* answers and the result of upload_batch_to_qdrant are the inputs of a    *)
(* round.  `for i, batch in enumerate(batches)` binds i anew in each       *)
(* round from the enumerate iterator, whatever the body assigned to it.    *)
(***************************************************************************)
MaxBatches == 3

Answers == {"y", "n"}

\* main 251-272: one round of the loop on the batch enumerate yields next.
BatchRound(success, retry, proceed) ==
    /\ loop.pc = "loop"
    /\ loop.k < loop.len
    /\ LET yielded == loop.k
           i == IF ~success /\ retry = "y" THEN yielded - 1 ELSE yielded
           asked == i < loop.len - 1
           attempt == [batch |-> yielded, ok |-> success,
                       retry |-> IF success THEN None ELSE retry]
       IN  loop' = [loop EXCEPT
              !.k = yielded + 1,
              !.i = i,
              !.success = success,
              !.attempts = Append(@, attempt),
              !.pc = IF asked /\ proceed # "y" THEN "break" ELSE "loop",
              !.out = IF asked /\ proceed # "y" THEN Append(@, "paused") ELSE @]
    /\ UNCHANGED <<env, corpus, storeVars, startVars, queryVars, docsVars, ingest,
                   chatVars, upload, folder, auth>>

\* main 274: after the loop, ended by exhaustion or by break.
BatchEnd ==
    /\ \/ loop.pc = "loop" /\ loop.k = loop.len
       \/ loop.pc = "break"
    /\ loop' = [loop EXCEPT !.pc = "done", !.out = Append(@, "completed")]
    /\ UNCHANGED <<env, corpus, storeVars, startVars, queryVars, docsVars, ingest,
                   chatVars, upload, folder, auth>>

InitBatchLoop ==
    /\ InitServing
    /\ InitQueryIdle
    /\ InitDocsIdle
    /\ ingest = IdleIngest
    /\ handler = [h \in Handlers |-> IdleHandler]
    /\ mongo = EmptyMongo
    /\ upload = IdleUpload
    /\ folder = IdleFolder
    /\ loop \in {[IdleLoop EXCEPT !.pc = "loop", !.len = n] : n \in 0..MaxBatches}
    /\ auth = IdleAuth

NextBatchLoop ==
    \/ \E success \in BOOLEAN, retry \in Answers, proceed \in Answers :
          BatchRound(success, retry, proceed)
    \/ BatchEnd

SpecBatchLoop == InitBatchLoop /\ [][NextBatchLoop]_vars

(***************************************************************************)
(* The auth router (auth.py 72-129 and 164-167) with the helpers it calls  *)
(* (helpers.py 24-88).  auth holds the last request and its response.      *)
(***************************************************************************)
Usernames == {"alice", "bob"}
Roles == {"user", "admin"}

\* helpers.py 26: the in-memory user table; no code writes to it.
fake_users_db == {}

SECRET_KEY == "secret"

\* create_access_token 53-59: the claims with the expiry, signed.
CreateAccessToken(data) ==
    [sub |-> data.sub, role |-> data.role, exp |-> "later", key |-> SECRET_KEY]

\* Tokens a client may send: what create_access_token makes for a name
\* and a role, the same expired, and the same signed with another key.
TokenChoices ==
    LET issued == {CreateAccessToken([sub |-> u, role |-> r]) :
                      u \in Usernames, r \in Roles}
    IN  issued
        \cup {[t EXCEPT !.exp = "past"] : t \in issued}
        \cup {[t EXCEPT !.key = "other"] : t \in issued}
        \cup {[t EXCEPT !.exp = "past", !.key = "other"] : t \in issued}

\* jwt.decode with SECRET_KEY: the claims, or none for a JWTError.
JwtDecode(token) ==
    IF token.key = SECRET_KEY /\ token.exp = "later"
    THEN [sub |-> token.sub, role |-> token.role]
    ELSE NoPayload

\* mongodb.get_user_by_username: find_one on the users collection.
GetUserByUsername(users, username) ==
    IF \E u \in users : u.username = username
    THEN CHOOSE u \in users : u.username = username
    ELSE NoUser

\* get_user 37-41 on a dict keyed by username.
GetUser(db, username) ==
    IF \E u \in db : u.username = username
    THEN CHOOSE u \in db : u.username = username
    ELSE NoUser

Request(op, username) ==
    [pc |-> op, username |-> username, token |-> NoToken, status |-> 0,
     user |-> NoUser]

\* register_user 72-105.
RegisterUser(username, role) ==
    /\ LET existing_user == GetUserByUsername(mongo.users, username)
       IN  IF existing_user # NoUser
           THEN /\ auth' = [Request("register", username) EXCEPT !.status = 400]
                /\ UNCHANGED mongo
           ELSE /\ mongo' = [mongo EXCEPT !.users =
                       @ \cup {[username |-> username, role |-> role]}]
                /\ auth' = [Request("register", username) EXCEPT
                               !.status = 200,
                               !.user = [username |-> username, role |-> role]]
    /\ UNCHANGED <<env, corpus, storeVars, startVars, queryVars, docsVars, ingest,
                   handler, upload, folder, loop>>

\* login_for_access_token 108-129: authenticate_user (helpers.py 44-50) is
\* handed the MongoDB object as db, and get_user 38 evaluates
\* `username in db` on it; MongoDB defines no __contains__, __iter__ or
\* __getitem__, so the test raises TypeError and the request ends in 500.
LoginForAccessToken(username, password_ok) ==
    /\ auth' = [Request("token", username) EXCEPT !.status = 500]
    /\ UNCHANGED <<env, corpus, storeVars, startVars, queryVars, docsVars, ingest,
                   chatVars, upload, folder, loop>>

\* get_current_user 62-88, the dependency of /auth/me and of the chat
\* endpoints.
GetCurrentUser(token) ==
    /\ LET payload == JwtDecode(token)
           user == IF payload = NoPayload THEN NoUser
                   ELSE GetUser(fake_users_db, payload.sub)
       IN  auth' = [Request("me", token.sub) EXCEPT
                       !.token = token,
                       !.status = IF user = NoUser THEN 401 ELSE 200,
                       !.user = user]
    /\ UNCHANGED <<env, corpus, storeVars, startVars, queryVars, docsVars, ingest,
                   chatVars, upload, folder, loop>>

\* get_current_admin_user, auth.py 35-69, the dependency of the documents
\* router.
GetCurrentAdminUser(token) ==
    /\ LET payload == JwtDecode(token)
           user == IF payload = NoPayload THEN NoUser
                   ELSE GetUserByUsername(mongo.users, payload.sub)
       IN  auth' = [Request("admin", token.sub) EXCEPT
                       !.token = token,
                       !.status = IF user = NoUser THEN 401
                                  ELSE IF payload.role # "admin" \/ user.role # "admin"
                                  THEN 403 ELSE 200,
                       !.user = IF user # NoUser /\ payload.role = "admin"
                                   /\ user.role = "admin"
                                THEN user ELSE NoUser]
    /\ UNCHANGED <<env, corpus, storeVars, startVars, queryVars, docsVars, ingest,
                   chatVars, upload, folder, loop>>

NextAuth ==
    \/ \E username \in Usernames, role \in Roles : RegisterUser(username, role)
    \/ \E username \in Usernames, password_ok \in BOOLEAN :
          LoginForAccessToken(username, password_ok)
    \/ \E token \in TokenChoices : GetCurrentUser(token)
    \/ \E token \in TokenChoices : GetCurrentAdminUser(token)

SpecAuth == InitChat /\ [][NextAuth]_vars

(***************************************************************************)
(* Properties of startup.                                                  *)
(***************************************************************************)
InSeq(x, s) == \E i \in 1..Len(s) : s[i] = x

\* C5: however often startup runs, each collection is created at most once,
\* and a startup that finds a collection existing attaches to it (it is in
\* self.indexes) having made no create call, read no source directory,
\* embedded nothing and written nothing for it.
C5_StartupIdempotent ==
    /\ \A c \in CollectionNames : creates[c] <= 1
    /\ \A p \in Procs, c \in CollectionNames :
         proc[p].saw[c] = "present" =>
            /\ proc[p].ops[c] = {}
            /\ InSeq(c, proc[p].indexes)

\* A second startup of a process slot is ready, having found both
\* collections in place.
C5_Witness ==
    \E p \in Procs :
       /\ runs[p] = 2
       /\ proc[p].pc = "ready"
       /\ \A c \in CollectionNames :
            proc[p].saw[c] = "present" /\ creates[c] = 1

\* C6: a startup that finds a collection absent while its source path
\* yields no document never gets ready: no agent is built and no pipeline
\* is installed on app.state, and once create_index has read the directory
\* the startup has failed with the "No documents loaded" error.
C6_EmptyColdStartFails ==
    \A p \in Procs, c \in CollectionNames :
       (proc[p].saw[c] = "absent" /\ corpus[c] = <<>>) =>
          /\ proc[p].pc \in {"create", "build", "failed"}
          /\ ~proc[p].installed
          /\ proc[p].agent = <<>>
          /\ "read" \in proc[p].ops[c] =>
                proc[p].pc = "failed" /\ proc[p].err = "no_documents"

\* create_index created the collection, read an empty directory and raised.
C6_Witness ==
    \E p \in Procs, c \in CollectionNames :
       /\ proc[p].saw[c] = "absent"
       /\ corpus[c] = <<>>
       /\ "read" \in proc[p].ops[c]
       /\ proc[p].pc = "failed"
       /\ proc[p].err = "no_documents"

\* C7: when two initializers both saw a collection absent, it is created at
\* most once and the one whose create_collection comes second goes on as if
\* it had succeeded: no startup fails on the refusal and the uploader does
\* not return False for it.
C7_DuplicateCreateIsNoOp ==
    /\ \A c \in CollectionNames : creates[c] <= 1
    /\ \A p \in Procs : proc[p].err # "create_conflict"
    /\ ~uploader.conflict

(***************************************************************************)
(* Properties of query.                                                    *)
(***************************************************************************)
WebSearchDegraded(calls) ==
    \E i \in 1..Len(calls) :
       /\ calls[i].tool = "duckduckgo_search"
       /\ calls[i].outcome \in {"raise", "empty"}

\* Positions j of a session list where the user turn of a query is followed
\* by the assistant turn answering it.
AnsweredAt(log) ==
    {j \in 1..(Len(log) - 1) :
        /\ log[j].role = "user"
        /\ log[j + 1].role = "assistant"
        /\ log[j + 1].n = log[j].n}

SameTurn(msg, turn) ==
    msg.role = turn.role /\ msg.content = turn.content /\ msg.n = turn.n

\* Positions i of a message list that hold the two turns log[j], log[j+1].
PairAt(msgs, log, j) ==
    {i \in 1..(Len(msgs) - 1) :
        SameTurn(msgs[i], log[j]) /\ SameTurn(msgs[i + 1], log[j + 1])}

\* C1: a query about vehicles that returns has invoked exactly
\* manuals_search, online_resources_search, duckduckgo_search, once each and
\* in that order.
C1_ToolOrder ==
    (last # NoResult /\ last.status = "ok" /\ InDomain(last.query)) =>
        ToolNames(last.calls) = PromptToolOrder

\* C2: a query unrelated to vehicles returns the fixed refusal and has
\* invoked no tool.
C2_DomainGuard ==
    (last # NoResult /\ last.status = "ok" /\ ~InDomain(last.query)) =>
        last.answer = Refusal /\ last.calls = <<>>

\* C3 as claimed: while a query B of a session is reasoned over, the context
\* holds, for every earlier answered query A of that session, A's user turn
\* followed by A's assistant turn.
C3_SessionContinuity ==
    cur # NoQuery =>
        \A j \in AnsweredAt(GetHistory(cur.sid)) :
            PairAt(cur.context, GetHistory(cur.sid), j) # {}

\* C3 as amended: for every earlier answered query A of B's session, the
\* agent's memory holds A's user message immediately followed by A's
\* assistant message, and B's context holds them too whenever the stored
\* messages from A's user message onwards fit the token limit.
C3_ContinuityWithinBudget ==
    cur # NoQuery =>
        \A j \in AnsweredAt(GetHistory(cur.sid)) :
            LET log == GetHistory(cur.sid)
            IN  /\ PairAt(memory, log, j) # {}
                /\ \A i \in PairAt(memory, log, j) :
                     TokenCount(SubSeq(memory, i, Len(memory))) <= TokenLimit
                        => PairAt(cur.context, log, j) # {}

\* B is being reasoned over with A's two turns in its context, a query of
\* another session having been answered in between.
C3_Witness ==
    /\ cur # NoQuery
    /\ cur.n = MaxQueries
    /\ \E j \in AnsweredAt(GetHistory(cur.sid)) :
          /\ GetHistory(cur.sid)[j].n = 1
          /\ PairAt(cur.context, GetHistory(cur.sid), j) # {}
    /\ \E i \in 1..Len(cur.context) : cur.context[i].sid # cur.sid

\* C4: the context of a query holds only messages of the query's session.
C4_SessionIsolation ==
    cur # NoQuery =>
        \A i \in 1..Len(cur.context) : cur.context[i].sid = cur.sid

\* C8: a query during which the web search raised or returned nothing
\* returns a non-empty answer.
C8_WebSearchDegrades ==
    (last # NoResult /\ WebSearchDegraded(last.calls)) =>
        last.status = "ok" /\ last.answer # ""

\* C9: a session's turn list stays within the token budget, the oldest turns
\* going first; only the most recent turn may exceed it on its own.
C9_MemoryBound ==
    \A sid \in DOMAIN sessions :
        TokenCount(sessions[sid]) <= TokenLimit \/ Len(sessions[sid]) = 1

(***************************************************************************)
(* Properties of add_documents and list_manuals.                           *)
(***************************************************************************)
FilePathsOf(stored) == {stored[i].file_path : i \in 1..Len(stored)}

\* C10: list_manuals returns as many records as there are distinct file_path
\* values among the chunks the manuals collection holds, however many chunks
\* that is.  Stated for collections in which every chunk has a path (every
\* instance of the claim that is left is an instance of the claim).
C10_OneRecordPerFilePath ==
    (/\ listResult.called
     /\ listResult.ok
     /\ EmptyPath \notin FilePathsOf(listResult.stored)) =>
        Len(listResult.manuals) = Cardinality(FilePathsOf(listResult.stored))

(***************************************************************************)
(* Properties of the metadata loops.                                       *)
(***************************************************************************)
FinalSegment(path) == IF Len(path) = 0 THEN "" ELSE path[Len(path)]

\* C11: on both ingestion paths, a document with a file_path and no
\* file_name gets the final segment of file_path as file_name (and keeps its
\* file_path); a document with neither gets both as the empty string; a
\* non-empty file_name is left as it is.
C11_MetadataFallback ==
    \A i \in 1..Len(ingest.out) :
       LET given == ingest.docs[i]
           has(key) == key \in DOMAIN given
           stored == ingest.out[i]
       IN  /\ (has("file_path") /\ ~has("file_name")) =>
                 /\ stored.file_path = given.file_path
                 /\ stored.file_name = FinalSegment(given.file_path)
           /\ (~has("file_path") /\ ~has("file_name")) =>
                 /\ stored.file_path = EmptyPath
                 /\ stored.file_name = ""
           /\ (has("file_name") /\ given.file_name # "") =>
                 stored.file_name = given.file_name

\* A call of add_documents has normalised /a/b/manual.pdf given without a
\* name, and a document given without metadata.
C11_Witness ==
    /\ ingest.path = "add_documents"
    /\ Len(ingest.out) = 2
    /\ DOMAIN ingest.docs[1] = {"file_path"}
    /\ ingest.docs[1].file_path = <<"a", "b", "manual.pdf">>
    /\ ingest.out[1].file_name = "manual.pdf"
    /\ DOMAIN ingest.docs[2] = {}
    /\ ingest.out[2] = [file_path |-> EmptyPath, file_name |-> ""]

(***************************************************************************)
(* Properties of the query result and the session log.                     *)
(***************************************************************************)
\* C12: the source_nodes of a returned QueryResult are passages returned by
\* query-engine calls of that query's own run, in the order of the calls;
\* no passage surfaced by an earlier query is among them.
C12_SourceNodesOfThisRun ==
    (last # NoResult /\ last.status = "ok") =>
        /\ \A i \in 1..Len(last.source_nodes) :
              LET node == last.source_nodes[i].text
              IN  /\ node.n = last.n
                  /\ node.k \in 1..Len(last.calls)
                  /\ last.calls[node.k] = [tool |-> node.tool, outcome |-> "hits"]
        /\ \A i, j \in 1..Len(last.source_nodes) :
              i < j => last.source_nodes[i].text.k < last.source_nodes[j].text.k

\* The second query returned with passages of two retrieval calls, after a
\* first query that was answered too.
C12_Witness ==
    /\ last # NoResult
    /\ last.status = "ok"
    /\ last.n = 2
    /\ Len(memory) = 4
    /\ Len(last.source_nodes) = 2
    /\ last.source_nodes[1].text.tool # last.source_nodes[2].text.tool

IsPrefix(s, t) == Len(s) <= Len(t) /\ SubSeq(t, 1, Len(s)) = s

\* C13: a query that returned has added to its session's list, created empty
\* on first reference, exactly its user turn followed by its assistant turn;
\* every turn any session held before the call is still there, unchanged and
\* in the same place (also while the query runs or when it fails); the lists
\* of other sessions are as they were.
C13_AppendOnly ==
    /\ cur # NoQuery =>
          \A s \in DOMAIN cur.before :
             s \in DOMAIN sessions /\ IsPrefix(cur.before[s], sessions[s])
    /\ last # NoResult =>
          /\ \A s \in DOMAIN last.before :
                s \in DOMAIN sessions /\ IsPrefix(last.before[s], sessions[s])
          /\ last.status = "ok" =>
                LET held == IF last.sid \in DOMAIN last.before
                            THEN last.before[last.sid] ELSE <<>>
                IN  /\ DOMAIN sessions = DOMAIN last.before \cup {last.sid}
                    /\ \A s \in DOMAIN last.before \ {last.sid} :
                          sessions[s] = last.before[s]
                    /\ sessions[last.sid] = held \o
                          <<[role |-> "user", content |-> last.query, n |-> last.n],
                            [role |-> "assistant", content |-> last.answer,
                             n |-> last.n]>>

\* The same query text was answered a second time in a session, another
\* session holding turns of its own.
C13_Witness ==
    /\ last # NoResult
    /\ last.status = "ok"
    /\ last.n = MaxQueries
    /\ Len(sessions[last.sid]) = 4
    /\ sessions[last.sid][1].content = last.query
    /\ \E s \in DOMAIN sessions : s # last.sid /\ sessions[s] # <<>>

(***************************************************************************)
(* Properties of the chat handler.                                         *)
(***************************************************************************)
\* Every assistant turn of a log stands right after the user turn of the
\* same request.
Paired(log, SameRequest(_, _)) ==
    \A j \in 1..Len(log) :
       log[j].role = "assistant" =>
          /\ j > 1
          /\ log[j - 1].role = "user"
          /\ SameRequest(log[j - 1], log[j])

\* C14: with two requests in flight on one session id, every answered user
\* turn is immediately followed by its assistant turn, in the engine's list
\* of the session, in the stored messages of the session and in the history
\* returned to a caller.
C14_NoInterleavedTurns ==
    /\ \A sid \in DOMAIN sessions :
          Paired(sessions[sid], LAMBDA u, a : u.n = a.n)
    /\ \A h \in Handlers :
          handler[h].sid # None =>
             Paired(ChatHistoryOf(mongo.chats, handler[h].sid),
                    LAMBDA u, a : u.h = a.h)
    /\ \A h \in Handlers :
          Paired(handler[h].history, LAMBDA u, a : u.h = a.h)

\* C15: while a query of one session is inside the engine, a request of
\* another session that waits to store its message or to enter the engine
\* can take that step.
C15_NoCrossSessionBlocking ==
    \A a, b \in Handlers :
       (/\ handler[a].pc = "in_query"
        /\ handler[b].pc \in {"begun", "stored"}
        /\ handler[b].sid # handler[a].sid) =>
           ENABLED (ChatStoreUser(b) \/ ChatQuery(b))

\* C16: a request served before the startup of its process has completed
\* ends at once with the not-initialized error of the dependency (HTTP 500)
\* or of query; it gets no session, no query number and no later step.
C16_FailFastBeforeReady ==
    \A h \in Handlers :
       (handler[h].pc # "idle" /\ ~handler[h].ready) =>
          /\ handler[h].pc = "done"
          /\ handler[h].detail \in
                {"RAG pipeline not initialized", "Agent not created"}
          /\ handler[h].via = "http" => handler[h].status = 500
          /\ handler[h].sid = None
          /\ handler[h].n = 0
          /\ cur = NoQuery
          /\ sessions = <<>>

\* The dependency has rejected a request while a collection was being built.
C16_Witness ==
    \E h \in Handlers, p \in Procs :
       /\ proc[p].pc = "build"
       /\ handler[h].pc = "done"
       /\ ~handler[h].ready
       /\ handler[h].detail = "RAG pipeline not initialized"

\* A provider error showed during a query: the completion call failed, or a
\* retrieval tool (embedding, vector store) raised.
ProviderErrorSeen(result) ==
    \/ result.err = "provider_error"
    \/ \E i \in 1..Len(result.calls) :
          /\ result.calls[i].tool \in QueryEngineTools
          /\ result.calls[i].outcome = "raise"

\* C20: a query during which the completion or embedding backend raised
\* returns no QueryResult, and its caller gets the processing error.
C20_ProviderErrorIsFatal ==
    (last # NoResult /\ ProviderErrorSeen(last)) =>
        /\ last.status = "error"
        /\ \A h \in Handlers :
              handler[h].n = last.n =>
                 /\ handler[h].status = 500
                 /\ handler[h].detail = "Error processing query"

(***************************************************************************)
(* Properties of the configuration check.                                  *)
(***************************************************************************)
EmbeddingConfig == {"JINA_API_KEY"}
VectorStoreConfig == {"QDRANT_URL", "QDRANT_API_KEY"}

\* C17: a startup that has checked, created or loaded a collection, or that
\* is ready, runs with the embedding and the vector-store configuration set.
C17_ConfigRequired ==
    \A p \in Procs :
       (\/ proc[p].pc = "ready"
        \/ proc[p].saw # Unseen
        \/ proc[p].ops # NoOps
        \/ proc[p].indexes # <<>>) =>
           /\ EmbeddingConfig \subseteq env
           /\ VectorStoreConfig \subseteq env

(***************************************************************************)
(* Properties of add_documents.                                            *)
(***************************************************************************)
\* C18: whatever add_documents calls were made, the online_resources
\* collection holds the entries it held before them.
C18_AddWritesManualsOnly ==
    /\ collections["online_resources"] = ChunksOfAll(corpus["online_resources"])
    /\ addResult.called =>
          collections["online_resources"] = addResult.before["online_resources"]

\* Two calls have been made and the last one wrote a document to manuals.
C18_Witness ==
    /\ nadds = 2
    /\ addResult.called
    /\ addResult.inserted > 0
    /\ Len(collections["manuals"]) > Len(addResult.before["manuals"])

\* C19: add_documents returns True exactly when every document of the call
\* was inserted; when the insert of document k fails it returns False, the
\* k-1 documents before it are in the collection after what it held before
\* the call, and no later document of the call is.
C19_AddPartialFailure ==
    addResult.called =>
        /\ addResult.ok \in BOOLEAN
        /\ addResult.ok <=> addResult.inserted = Len(addResult.docs)
        /\ collections["manuals"] =
              addResult.before["manuals"] \o
                 ChunksOfAll(SubSeq(addResult.docs, 1, addResult.inserted))

\* The insert of the second of two documents failed: False, the first stays.
C19_Witness ==
    /\ addResult.called
    /\ ~addResult.ok
    /\ Len(addResult.docs) = 2
    /\ addResult.inserted = 1
    /\ Len(collections["manuals"]) = Len(addResult.before["manuals"]) + 1

(***************************************************************************)
(* Properties of the constructed engine.                                   *)
(***************************************************************************)
SeqRange(s) == {s[i] : i \in 1..Len(s)}

\* C21: wherever an engine has its agent, it has the indexes of both
\* collections and the agent's roster is exactly manuals_search,
\* online_resources_search and duckduckgo_search; a startup that failed on a
\* collection has no agent and installed no pipeline.
C21_AgentAfterBothCollections ==
    \A p \in Procs :
       /\ proc[p].agent # <<>> =>
             /\ SeqRange(proc[p].indexes) = CollectionNames
             /\ Len(proc[p].agent) = 3
             /\ SeqRange(proc[p].agent) =
                   {"manuals_search", "online_resources_search", "duckduckgo_search"}
       /\ proc[p].pc = "failed" =>
             proc[p].agent = <<>> /\ ~proc[p].installed

\* One engine is ready with its agent after building a collection, while
\* another startup failed on a collection and has none.
C21_Witness ==
    \E p, q \in Procs :
       /\ proc[p].pc = "ready"
       /\ proc[p].agent # <<>>
       /\ \E c \in CollectionNames : "write" \in proc[p].ops[c]
       /\ proc[q].pc = "failed"
       /\ proc[q].err \in {"no_documents", "provider", "create_conflict"}

\* C22: a cold start that failed because the source path yielded no document
\* leaves the store as it found it: the collection it was building is absent.
C22_FailedColdStartLeavesStore ==
    \A p \in Procs :
       (proc[p].pc = "failed" /\ proc[p].err = "no_documents") =>
          Col(p) \notin existing

(***************************************************************************)
(* Properties of the session lists between queries.                        *)
(***************************************************************************)
\* A list of complete pairs: user, assistant, user, assistant, ...
CompletePairs(log) ==
    /\ Len(log) % 2 = 0
    /\ \A j \in 1..Len(log) :
          log[j].role = IF j % 2 = 1 THEN "user" ELSE "assistant"

\* C23: when no query is running, every session list consists of complete
\* user/assistant pairs; a query that failed inside the agent has left the
\* lists as they were before the call.
C23_CompletePairs ==
    cur = NoQuery =>
        /\ \A sid \in DOMAIN sessions : CompletePairs(sessions[sid])
        /\ (last # NoResult /\ last.status = "error") => sessions = last.before

(***************************************************************************)
(* Properties of the session records.                                      *)
(***************************************************************************)
\* C24: a request to the text or the audio endpoint that brought no
\* session_id has a session record for the id it works under before its
\* first chat message is stored, so the id it returns has a session record.
C24_SessionRecordFirst ==
    \A h \in Handlers :
       (/\ handler[h].via \in {"http", "audio"}
        /\ ~handler[h].given
        /\ handler[h].sid # None
        /\ \E i \in 1..Len(mongo.chats) : mongo.chats[i].h = h)
       => handler[h].sid \in mongo.sessions

(***************************************************************************)
(* Properties of the upload endpoint.                                      *)
(***************************************************************************)
\* C25: a record is written to the documents store only by an upload whose
\* add_documents call has returned True for the parsed documents, and an
\* upload refused for its content type changes neither the index nor the
\* store.
C25_RecordAfterIngestion ==
    [][/\ mongo'.documents # mongo.documents =>
            /\ upload.pc = "added" /\ upload.success
            /\ addResult.called /\ addResult.ok
            /\ addResult.docs = upload.docs
            /\ addResult.inserted = Len(upload.docs)
            /\ mongo'.documents = Append(mongo.documents,
                   [file_name |-> upload.file_name, status |-> "processed"])
       /\ upload'.status = 400 =>
            /\ upload'.content_type # "application/pdf"
            /\ (upload.status # 400 \/ upload' # upload) =>
                   collections' = collections /\ mongo' = mongo
       /\ (upload' # upload /\ upload'.content_type # "application/pdf") =>
            upload'.status = 400]_vars

\* A PDF has been ingested and recorded, and the request after it was
\* refused for its content type.
C25_Witness ==
    /\ upload.status = 400
    /\ mongo.documents # <<>>
    /\ addResult.called /\ addResult.ok /\ addResult.docs # <<>>

(***************************************************************************)
(* Properties of process_folder.                                           *)
(***************************************************************************)
RECURSIVE SumTokens(_, _)
SumTokens(files, batch) ==
    IF batch = <<>> THEN 0
    ELSE files[Head(batch)].tokens + SumTokens(files, Tail(batch))

RECURSIVE Concat(_)
Concat(batches) ==
    IF batches = <<>> THEN <<>> ELSE Head(batches) \o Concat(Tail(batches))

\* The positions 1..k of the files that can be read, in discovery order.
RECURSIVE ReadableUpTo(_, _)
ReadableUpTo(files, k) ==
    IF k = 0 THEN <<>>
    ELSE ReadableUpTo(files, k - 1)
            \o (IF files[k].readable THEN <<k>> ELSE <<>>)

\* C26: no batch that process_folder returns has more tokens than
\* max_tokens_per_batch.
C26_BatchWithinLimit ==
    folder.pc = "done" =>
       \A b \in 1..Len(folder.batches) :
          SumTokens(folder.files, folder.batches[b]) <= folder.max

\* C27: the batches partition the readable files: joined in order they are
\* the readable files in discovery order (so each is in exactly one batch),
\* and no batch is empty.
C27_BatchesPartitionFiles ==
    /\ \A b \in 1..Len(folder.batches) : folder.batches[b] # <<>>
    /\ folder.pc \in {"loop", "done"} =>
          Concat(folder.batches) \o folder.current_batch
             = ReadableUpTo(folder.files, folder.k)
    /\ folder.pc = "done" =>
          /\ folder.k = Len(folder.files)
          /\ folder.current_batch = <<>>

\* process_folder has returned two batches or more for a folder in which a
\* file could not be read.
C27_Witness ==
    /\ folder.pc = "done"
    /\ Len(folder.batches) >= 2
    /\ \E k \in 1..Len(folder.files) : ~folder.files[k].readable

(***************************************************************************)
(* Properties of the batch loop.                                           *)
(***************************************************************************)
\* C28: when the upload of a batch fails and the operator answers 'y' to the
\* retry prompt, the upload made next is of the same batch.
C28_RetrySameBatch ==
    \A j \in 1..Len(loop.attempts) :
       (/\ ~loop.attempts[j].ok
        /\ loop.attempts[j].retry = "y"
        /\ j < Len(loop.attempts))
       => loop.attempts[j + 1].batch = loop.attempts[j].batch

(***************************************************************************)
(* Properties of authentication.                                           *)
(***************************************************************************)
\* C29: get_current_user, given an unexpired token signed with SECRET_KEY
\* whose subject is a registered user, returns that user and not 401.
C29_RegisteredUserAccepted ==
    (/\ auth.pc = "me"
     /\ JwtDecode(auth.token) # NoPayload
     /\ GetUserByUsername(mongo.users, auth.token.sub) # NoUser)
    => /\ auth.status = 200
       /\ auth.user # NoUser
       /\ auth.user.username = auth.token.sub
====
